---------------------------- MODULE Spec2Model ----------------------------
(***************************************************************************)
(* A model of examples/breakout.rs (coffee's Breakout example).            *)
(*                                                                         *)
(* Numbers.  The game computes in f32.  Every quantity the model handles   *)
(* is an integer (or an integer number of tenths or halves) far below      *)
(* 2^24, which f32 represents and adds exactly, so the model uses          *)
(* integers:                                                               *)
(*   - positions, sizes, radius and speed are integers;                    *)
(*   - ball.normal is kept in tenths (Vector::new(0.8, 0.2) is <<8, 2>>),  *)
(*     and speed * normal is (speed * tenths) \div NormalScale.  For the   *)
(*     values used the f32 product rounds to exactly that integer          *)
(*     (10.0 * 0.8f32 = 8.0, 10.0 * 0.2f32 = 2.0);                         *)
(*   - intersects compares against width/2.0 and height/2.0; the model     *)
(*     compares the doubled quantities, which is the same test.            *)
(***************************************************************************)
EXTENDS Integers, Sequences, FiniteSets, TLC

VARIABLES
    ball,                   \* BreakoutExample.ball
    paddle,                 \* BreakoutExample.paddle
    bricks,                 \* BreakoutExample.bricks (a Vec: a sequence)
    bounds,                 \* BreakoutExample.bounds
    score,                  \* BreakoutExample.score
    cursor_position,        \* BreakoutExample.cursor_position
    keys_pressed,           \* BreakoutExample.keys_pressed
    mouse_buttons_pressed,  \* BreakoutExample.mouse_buttons_pressed
    input,                  \* the Input value the framework hands to on_input/interact
    last,                   \* history: which handler ran last, and what it met
    peak,                   \* history: <<x>> of the ball at its latest right-wall bounce
    probe                   \* one evaluation of intersects (SpecIntersects only)

world == <<ball, paddle, bricks, bounds, score>>
game  == <<cursor_position, keys_pressed, mouse_buttons_pressed>>
vars  == <<ball, paddle, bricks, bounds, score, cursor_position, keys_pressed,
           mouse_buttons_pressed, input, last, peak, probe>>

Abs(n) == IF n < 0 THEN -n ELSE n

Min(S) == CHOOSE m \in S : \A n \in S : m <= n

----------------------------------------------------------------------------
(* Bounds of the model *)

\* on_input pushes to text_buffer without limit; the model stops at this length.
MaxText == 1
\* interact moves the paddle without limit; the model stops this many steps
\* right of, and left of, the start.
MaxRight == 3
MaxLeft == 1
\* The intersects probe: coordinates, radius and sizes are drawn from 0..Max*.
MaxCoord == 7
MaxRadius == 5
MaxSize == 2

----------------------------------------------------------------------------
(* Program constants *)

\* ball.normal is kept in tenths.
NormalScale == 10
\* interact: self.paddle.position += 10.0 / -= 10.0
PaddleStep == 10

Point(x, y) == [x |-> x, y |-> y]

\* The literals of BreakoutExample::new and main, as one record.
RefConfig ==
    [ window      |-> <<800, 600>>,
      brick_size  |-> <<75, 30>>,
      columns     |-> 10,
      rows        |-> 5,
      paddle_size |-> <<64 * 2, 12 * 2>>,
      position    |-> Point(200, 200),
      radius      |-> 8,
      speed       |-> 10,
      normal      |-> Point(8, 2),
      bounds_y    |-> 32 ]

\* A scaled-down playfield built by the same construction: a 17x11 window, a
\* 3x2 grid of 5x4 bricks, a ball of radius 2 moving (4, 1) per tick.
TinyConfig ==
    [ window      |-> <<17, 11>>,
      brick_size  |-> <<5, 4>>,
      columns     |-> 3,
      rows        |-> 2,
      paddle_size |-> <<4 * 2, 1 * 2>>,
      position    |-> Point(13, 8),
      radius      |-> 2,
      speed       |-> 5,
      normal      |-> Point(8, 2),
      bounds_y    |-> 3 ]

\* The spec's wall scenario in the reference playfield: direction (1, 0),
\* speed 5, the ball starting a few ticks left of the right wall.
WallStartXs == 770 .. 775
WallConfigs ==
    { [RefConfig EXCEPT !.position = Point(x, 200), !.speed = 5,
                        !.normal = Point(10, 0)] : x \in WallStartXs }

----------------------------------------------------------------------------
(* Input events *)

KeyCodes == {"A", "D"}
MouseButtons == {"Left"}
ButtonStates == {"Pressed", "Released"}
CursorPoints == {Point(1, 1)}
Characters == {"a"}

Events ==
         { [type |-> "CursorMoved", x |-> p.x, y |-> p.y] : p \in CursorPoints }
    \cup { [type |-> "TextInput", character |-> c] : c \in Characters }
    \cup { [type |-> "KeyboardInput", key_code |-> k, state |-> s] :
               k \in KeyCodes, s \in ButtonStates }
    \cup { [type |-> "MouseInput", state |-> s, button |-> b] :
               s \in ButtonStates, b \in MouseButtons }
    \cup { [type |-> "CursorEntered"] }

\* Input::new
InputNew ==
    [ cursor_position       |-> Point(0, 0),
      mouse_wheel           |-> Point(0, 0),
      keys_pressed          |-> {},
      mouse_buttons_pressed |-> {},
      text_buffer           |-> <<>> ]

----------------------------------------------------------------------------
(* Geometry *)

Rect(brick) ==
    [ x |-> brick.position.x, y |-> brick.position.y,
      width |-> brick.size[1], height |-> brick.size[2] ]

\* intersects with the corner comparison made strict (< for <=).
IntersectsStrictCorner(b, rect) ==
    LET dx == Abs(b.position.x - rect.x)
        dy == Abs(b.position.y - rect.y)
    IN  IF 2 * dx > rect.width + 2 * b.radius THEN FALSE
        ELSE IF 2 * dy > rect.height + 2 * b.radius THEN FALSE
        ELSE IF 2 * dx <= rect.width THEN TRUE
        ELSE IF 2 * dy <= rect.height THEN TRUE
        ELSE (2 * dx - rect.width) * (2 * dx - rect.width)
             + (2 * dy - rect.height) * (2 * dy - rect.height)
             < (2 * b.radius) * (2 * b.radius)

\* BreakoutExample::intersects.  circle_distance is (dx, dy); the comparisons
\* against width/2.0 and height/2.0 are made on the doubled quantities.
Intersects(b, rect) ==
    LET dx == Abs(b.position.x - rect.x)
        dy == Abs(b.position.y - rect.y)
    IN  IF 2 * dx > rect.width + 2 * b.radius THEN FALSE
        ELSE IF 2 * dy > rect.height + 2 * b.radius THEN FALSE
        ELSE IF 2 * dx <= rect.width THEN TRUE
        ELSE IF 2 * dy <= rect.height THEN TRUE
        ELSE (2 * dx - rect.width) * (2 * dx - rect.width)
             + (2 * dy - rect.height) * (2 * dy - rect.height)
             <= (2 * b.radius) * (2 * b.radius)


----------------------------------------------------------------------------
(* BreakoutExample::new *)

\* The brick grid: for x in 0..columns { for y in 0..rows { push } }, so
\* brick number i (from 1) is column (i-1) \div rows, row (i-1) % rows.
NewBricks(cfg) ==
    [ i \in 1 .. cfg.columns * cfg.rows |->
        [ position |-> Point(((i - 1) \div cfg.rows) * cfg.brick_size[1],
                             ((i - 1) % cfg.rows) * cfg.brick_size[2]),
          size     |-> cfg.brick_size ] ]

NewBall(cfg) ==
    [ position |-> cfg.position, radius |-> cfg.radius,
      speed |-> cfg.speed, normal |-> cfg.normal ]

NewPaddle(cfg) == [ size |-> cfg.paddle_size, position |-> 0 ]

NewBounds(cfg) ==
    [ x |-> 0, y |-> cfg.bounds_y,
      width |-> cfg.window[1], height |-> cfg.window[2] ]

NoHistory == [ op |-> "new", hit |-> 0, redundant |-> "no" ]

\* The state BreakoutExample::new returns for the literals in cfg.
NewGame(cfg) ==
    /\ cursor_position = Point(0, 0)
    /\ keys_pressed = {}
    /\ mouse_buttons_pressed = {}
    /\ paddle = NewPaddle(cfg)
    /\ ball = NewBall(cfg)
    /\ bounds = NewBounds(cfg)
    /\ score = 0
    /\ bricks = NewBricks(cfg)
    /\ input = InputNew
    /\ last = NoHistory
    /\ peak = <<>>

----------------------------------------------------------------------------
(* BreakoutExample::on_input *)

\* insert that removes a key it finds already present (a toggle).
SetToggle(set, k) == IF k \in set THEN set \ {k} ELSE set \cup {k}

\* HashSet::insert and HashSet::remove
SetInsert(set, k) == set \cup {k}
SetRemove(set, k) == set \ {k}

\* The Input value after on_input has handled event e.
OnInputResult(in, e) ==
    CASE e.type = "CursorMoved" ->
           [in EXCEPT !.cursor_position = Point(e.x, e.y)]
      [] e.type = "TextInput" ->
           [in EXCEPT !.text_buffer = Append(@, e.character)]
      [] e.type = "KeyboardInput" /\ e.state = "Pressed" ->
           [in EXCEPT !.keys_pressed = SetInsert(@, e.key_code)]
      [] e.type = "KeyboardInput" /\ e.state = "Released" ->
           [in EXCEPT !.keys_pressed = SetRemove(@, e.key_code)]
      [] e.type = "MouseInput" /\ e.state = "Pressed" ->
           [in EXCEPT !.mouse_buttons_pressed = SetInsert(@, e.button)]
      [] e.type = "MouseInput" /\ e.state = "Released" ->
           [in EXCEPT !.mouse_buttons_pressed = SetRemove(@, e.button)]
      [] OTHER -> in

\* History only: a key event that finds the key already in the state it asks for.
Redundant(in, e) ==
    IF e.type = "KeyboardInput"
          /\ ((e.state = "Pressed") <=> (e.key_code \in in.keys_pressed))
    THEN e.state
    ELSE "no"

\* on_input that also moves the paddle as soon as D or A goes down.
OnInputMovesPaddle(e) ==
    /\ e.type = "TextInput" => Len(input.text_buffer) < MaxText
    /\ input' = OnInputResult(input, e)
    /\ paddle' = IF e.type = "KeyboardInput" /\ e.state = "Pressed"
                 THEN [paddle EXCEPT !.position =
                          IF e.key_code = "D" THEN @ + PaddleStep ELSE @ - PaddleStep]
                 ELSE paddle
    /\ last' = [ op |-> "on_input", hit |-> 0, redundant |-> Redundant(input, e) ]
    /\ UNCHANGED <<ball, bricks, bounds, score, game, peak, probe>>

OnInput(e) ==
    /\ e.type = "TextInput" => Len(input.text_buffer) < MaxText
    /\ input' = OnInputResult(input, e)
    /\ last' = [ op |-> "on_input", hit |-> 0, redundant |-> Redundant(input, e) ]
    /\ UNCHANGED <<world, game, peak, probe>>

----------------------------------------------------------------------------
(* BreakoutExample::interact *)

\* if D { += } else if A { -= }: the second test skipped when the first holds.
InteractPositionElseIf(position, keys) ==
    IF "D" \in keys THEN position + PaddleStep
    ELSE IF "A" \in keys THEN position - PaddleStep
    ELSE position

\* The two independent ifs on KeyCode::D and KeyCode::A.
InteractPosition(position, keys) ==
    LET right == IF "D" \in keys THEN position + PaddleStep ELSE position
    IN  IF "A" \in keys THEN right - PaddleStep ELSE right

\* interact that puts the paddle under the cursor (draw's comment speaks of "the
\* mouse cursor's position") instead of stepping it on D and A.
InteractFollowsCursor ==
    /\ cursor_position' = input.cursor_position
    /\ keys_pressed' = input.keys_pressed
    /\ mouse_buttons_pressed' = input.mouse_buttons_pressed
    /\ paddle' = [paddle EXCEPT !.position = input.cursor_position.x]
    /\ last' = [ op |-> "interact", hit |-> 0, redundant |-> "no" ]
    /\ UNCHANGED <<ball, bricks, bounds, score, input, peak, probe>>

Interact ==
    LET position == InteractPosition(paddle.position, input.keys_pressed)
    IN  /\ position <= MaxRight * PaddleStep
        /\ position >= 0 - MaxLeft * PaddleStep
        /\ cursor_position' = input.cursor_position
        /\ keys_pressed' = input.keys_pressed
        /\ mouse_buttons_pressed' = input.mouse_buttons_pressed
        /\ paddle' = [paddle EXCEPT !.position = position]
        /\ last' = [ op |-> "interact", hit |-> 0, redundant |-> "no" ]
        /\ UNCHANGED <<ball, bricks, bounds, score, input, peak, probe>>

----------------------------------------------------------------------------
(* BreakoutExample::update *)

\* self.ball.position += self.ball.speed * self.ball.normal
Integrate(b) ==
    [b EXCEPT !.position =
        Point(b.position.x + (b.speed * b.normal.x) \div NormalScale,
              b.position.y + (b.speed * b.normal.y) \div NormalScale)]

\* The right-wall test with > for >=.
RightTestStrict(b, bnds) == b.position.x + b.radius > bnds.width

\* The top-wall test against bounds.x where the code reads bounds.y.
TopTestBoundsX(b, bnds) == b.position.y + b.radius <= bnds.x

\* The four wall tests, as written.
RightTest(b, bnds)  == b.position.x + b.radius >= bnds.width
LeftTest(b, bnds)   == b.position.x - b.radius <= bnds.x
BottomTest(b, bnds) == b.position.y + b.radius >= bnds.height
TopTest(b, bnds)    == b.position.y + b.radius <= bnds.y

\* Wall bounces that turn the direction a quarter at the side walls, (x, y) to
\* (-y, x), where the code negates x.
WallBouncesTurn(b, bnds) ==
    LET side == RightTest(b, bnds) # LeftTest(b, bnds)
        x1 == IF side THEN -b.normal.y ELSE b.normal.x
        y0 == IF side THEN b.normal.x ELSE b.normal.y
        y1 == IF BottomTest(b, bnds) THEN -y0 ELSE y0
        y2 == IF TopTest(b, bnds)    THEN -y1 ELSE y1
    IN  [b EXCEPT !.normal = Point(x1, y2)]

\* The four ifs in sequence: each negates the component the previous one left.
WallBounces(b, bnds) ==
    LET x1 == IF RightTest(b, bnds)  THEN -b.normal.x ELSE b.normal.x
        x2 == IF LeftTest(b, bnds)   THEN -x1 ELSE x1
        y1 == IF BottomTest(b, bnds) THEN -b.normal.y ELSE b.normal.y
        y2 == IF TopTest(b, bnds)    THEN -y1 ELSE y1
    IN  [b EXCEPT !.normal = Point(x2, y2)]

\* The scan run from the far end (iter().rev()): the last intersecting brick.
RECURSIVE LastHit(_, _, _)
LastHit(b, bs, i) ==
    IF i > Len(bs) THEN 0
    ELSE LET later == LastHit(b, bs, i + 1)
         IN  IF later # 0 THEN later
             ELSE IF Intersects(b, Rect(bs[i])) THEN i
             ELSE 0

\* The index of the first brick from index i on that intersects the ball, or 0:
\* the for loop over self.bricks.iter().enumerate() up to its break.
RECURSIVE FirstHit(_, _, _)
FirstHit(b, bs, i) ==
    IF i > Len(bs) THEN 0
    ELSE IF Intersects(b, Rect(bs[i])) THEN i
    ELSE FirstHit(b, bs, i + 1)

\* Vec::insert(index, copy) where remove was meant: the brick is doubled.
VecDouble(s, i) ==
    [ j \in 1 .. Len(s) + 1 |-> IF j <= i THEN s[j] ELSE s[j - 1] ]

\* Vec::remove(index): the later elements shift left.
VecRemove(s, i) ==
    [ j \in 1 .. Len(s) - 1 |-> IF j < i THEN s[j] ELSE s[j + 1] ]

\* The filter left commented out in update: every intersecting brick goes.
BrickCollisionsFilter(b, bs) ==
    SelectSeq(bs, LAMBDA brick : ~Intersects(b, Rect(brick)))

\* The brick loop: remove the first brick the ball intersects, then break.
BrickCollisions(b, bs) ==
    LET hit == FirstHit(b, bs, 1)
    IN  IF hit = 0 THEN bs ELSE VecRemove(bs, hit)

\* update never assigns self.score.
UpdateScore(s, hit) == s

\* The BreakoutExample value (self) the handlers are called on.
Self ==
    [ cursor_position       |-> cursor_position,
      keys_pressed          |-> keys_pressed,
      mouse_buttons_pressed |-> mouse_buttons_pressed,
      ball                  |-> ball,
      paddle                |-> paddle,
      bricks                |-> bricks,
      bounds                |-> bounds,
      score                 |-> score ]

\* update that bounces the ball off the brick it removes (direction.y negated).
UpdateSelfBrickBounce(self) ==
    LET moved == Integrate(self.ball)
        hit   == FirstHit(moved, self.bricks, 1)
        walls == WallBounces(moved, self.bounds)
    IN  [self EXCEPT !.ball   = IF hit = 0 THEN walls
                                ELSE [walls EXCEPT !.normal.y = -walls.normal.y],
                     !.bricks = BrickCollisions(moved, self.bricks),
                     !.score  = UpdateScore(self.score, hit)]

\* update that also bounces the ball off the paddle, drawn along the bottom edge.
UpdateSelfPaddleBounce(self) ==
    LET moved  == Integrate(self.ball)
        hit    == FirstHit(moved, self.bricks, 1)
        walls  == WallBounces(moved, self.bounds)
        pad    == [ x |-> self.paddle.position, y |-> self.bounds.height,
                    width |-> self.paddle.size[1], height |-> self.paddle.size[2] ]
    IN  [self EXCEPT !.ball   = IF Intersects(moved, pad)
                                THEN [walls EXCEPT !.normal.y = -walls.normal.y]
                                ELSE walls,
                     !.bricks = BrickCollisions(moved, self.bricks),
                     !.score  = UpdateScore(self.score, hit)]

\* update as a function of self: the value of self when update returns.
UpdateSelf(self) ==
    LET moved == Integrate(self.ball)
        hit   == FirstHit(moved, self.bricks, 1)
    IN  [self EXCEPT !.ball   = WallBounces(moved, self.bounds),
                     !.bricks = BrickCollisions(moved, self.bricks),
                     !.score  = UpdateScore(self.score, hit)]

Update ==
    LET moved == Integrate(ball)
        hit   == FirstHit(moved, bricks, 1)
        after == UpdateSelf(Self)
    IN  /\ ball' = after.ball
        /\ paddle' = after.paddle
        /\ bricks' = after.bricks
        /\ bounds' = after.bounds
        /\ score' = after.score
        /\ cursor_position' = after.cursor_position
        /\ keys_pressed' = after.keys_pressed
        /\ mouse_buttons_pressed' = after.mouse_buttons_pressed
        /\ last' = [ op |-> "update", hit |-> hit, redundant |-> "no" ]
        /\ peak' = IF RightTest(moved, bounds) THEN <<moved.position.x>> ELSE peak
        /\ UNCHANGED <<input, probe>>

----------------------------------------------------------------------------
(* BreakoutExample::draw: takes &self, and reads bricks, paddle, ball and score *)

\* draw that moves the ball on by one integration step before rendering it.
DrawInterpolates ==
    /\ ball' = Integrate(ball)
    /\ last' = [ op |-> "draw", hit |-> 0, redundant |-> "no" ]
    /\ UNCHANGED <<paddle, bricks, bounds, score, game, input, peak, probe>>

Draw ==
    /\ last' = [ op |-> "draw", hit |-> 0, redundant |-> "no" ]
    /\ UNCHANGED <<world, game, input, peak, probe>>

----------------------------------------------------------------------------
(* Specifications *)

\* The handlers of the Game trait, called in any order, on the small playfield.
Init ==
    /\ NewGame(TinyConfig)
    /\ probe = <<>>

Next ==
    \/ \E e \in Events : OnInput(e)
    \/ Interact
    \/ Update
    \/ Draw

Spec == Init /\ [][Next]_vars

\* on_input, interact and update with a key other than A and D on the keyboard as
\* well: the events, beside A and D going down or up, that the handlers receive.
OtherKeyCodes == {"W"}

OtherKeyEvents ==
    { [type |-> "KeyboardInput", key_code |-> k, state |-> s] :
          k \in OtherKeyCodes, s \in ButtonStates }

NextEvents ==
    \/ \E e \in Events \cup OtherKeyEvents : OnInput(e)
    \/ Interact
    \/ Update

\* A playfield a few ticks across (8x6, two bricks), so that the ball meets
\* bricks and walls many times between the events.
EventsConfig ==
    [ window      |-> <<8, 6>>,
      brick_size  |-> <<5, 4>>,
      columns     |-> 2,
      rows        |-> 1,
      paddle_size |-> <<4 * 2, 1 * 2>>,
      position    |-> Point(3, 3),
      radius      |-> 2,
      speed       |-> 5,
      normal      |-> Point(8, 2),
      bounds_y    |-> 4 ]

InitEvents ==
    /\ NewGame(EventsConfig)
    /\ probe = <<>>

SpecEvents == InitEvents /\ [][NextEvents]_vars

\* The game as main starts it (an 800x600 window), ticked.  No handler but
\* update writes the ball or the bricks, so update alone drives this one.
InitRef ==
    /\ NewGame(RefConfig)
    /\ probe = <<>>

SpecRef == InitRef /\ [][Update]_vars

\* The wall scenario, ticked.
InitWall ==
    /\ \E cfg \in WallConfigs : NewGame(cfg)
    /\ probe = <<>>

SpecWall == InitWall /\ [][Update]_vars

\* update as a function of any world state: the small playfield with windows
\* down to ones narrower and lower than the ball (width 3 < 2 * radius, and
\* height 2 < bounds.y), ticked from several ball positions.
NarrowWindows == { <<3, 2>>, <<3, 11>>, <<17, 2>>, <<17, 11>> }
NarrowStarts == { Point(1, 1), Point(5, 8), Point(13, 8) }
NarrowConfigs ==
    { [TinyConfig EXCEPT !.window = w, !.position = p] :
        w \in NarrowWindows, p \in NarrowStarts }

InitNarrow ==
    /\ \E cfg \in NarrowConfigs : NewGame(cfg)
    /\ probe = <<>>

SpecNarrow == InitNarrow /\ [][Update]_vars

\* intersects as a pure function: Init draws a ball and a rectangle, Probe
\* applies intersects to them.
ProbeBalls ==
    { [ position |-> Point(x, y), radius |-> r, speed |-> 0, normal |-> Point(0, 0) ] :
        x \in 0 .. MaxCoord, y \in 0 .. MaxCoord, r \in 1 .. MaxRadius }

ProbeRects ==
    { [ x |-> x, y |-> y, width |-> w, height |-> h ] :
        x \in {0, 3}, y \in {0, 2}, w \in 0 .. MaxSize, h \in 0 .. MaxSize }

InitIntersects ==
    /\ NewGame(TinyConfig)
    /\ \E b \in ProbeBalls, rect \in ProbeRects : probe = <<b, rect>>

Probe ==
    /\ Len(probe) = 2
    /\ probe' = Append(probe, Intersects(probe[1], probe[2]))
    /\ UNCHANGED <<world, game, input, last, peak>>

SpecIntersects == InitIntersects /\ [][Probe]_vars

\* The elements of a sequence.
Range(s) == { s[i] : i \in DOMAIN s }

----------------------------------------------------------------------------
(* Claims *)

\* C1: after every tick from the reference initial configuration the ball is
\* inside the playfield: bounds.x <= ball.x <= bounds.x + bounds.width and
\* bounds.y <= ball.y <= bounds.y + bounds.height.
C1_BallInBounds ==
    /\ bounds.x <= ball.position.x
    /\ ball.position.x <= bounds.x + bounds.width
    /\ bounds.y <= ball.position.y
    /\ ball.position.y <= bounds.y + bounds.height

\* C2: a tick that removes a brick increments the score, in that same tick, by
\* a positive amount.
C2_RemovalScores ==
    [][Len(bricks') < Len(bricks) => score' > score]_vars

\* C3: from one state to the next, whatever handler runs, the bricks
\* collection never grows and the score never decreases.
C3_Monotone ==
    [][Len(bricks') <= Len(bricks) /\ score' >= score]_vars

\* A tick has just removed a brick.
C3_Witness ==
    /\ last.op = "update"
    /\ last.hit > 0
    /\ Len(bricks) < Len(NewBricks(TinyConfig))

\* C4: a tick removes at most one brick, namely the first brick in the
\* collection's order that overlaps the ball at its post-integration position;
\* every other brick, overlapping or not, stays, in the same relative order.
\* (update leaves ball.position as integration set it, so ball' holds the
\* post-integration position.)
C4_FirstBrickOnly ==
    [][ Update =>
          LET hits == { i \in DOMAIN bricks : Intersects(ball', Rect(bricks[i])) }
          IN  IF hits = {}
              THEN bricks' = bricks
              ELSE bricks' = SubSeq(bricks, 1, Min(hits) - 1)
                             \o SubSeq(bricks, Min(hits) + 1, Len(bricks)) ]_vars

\* A tick has just removed a brick and another brick that overlaps the ball
\* is still in the collection.
C4_Witness ==
    /\ last.op = "update"
    /\ last.hit > 0
    /\ \E i \in DOMAIN bricks : Intersects(ball, Rect(bricks[i]))

\* C5: for a ball moving with direction (1, 0) toward the right wall: the tick
\* whose integration step makes the right-wall test (x + radius >= width)
\* true flips the sign of direction.x; at that tick the ball is less than one
\* tick's displacement past the point where the test starts to hold, and its
\* x never exceeds that position afterwards; and on every following tick it
\* moves back (x decreases, direction.x stays negative) until the left-wall
\* test (x - radius <= bounds.x) is true.
C5_RightWallBounce ==
    /\ [](peak # <<>> =>
            /\ ball.position.x <= peak[1]
            /\ peak[1] - ball.speed + ball.radius < bounds.width)
    /\ [][ (ball.normal.x > 0 /\ ball'.position.x + ball'.radius >= bounds.width)
              => ball'.normal.x = -ball.normal.x ]_vars
    /\ [][ (ball.normal.x < 0 /\ ~(ball'.position.x - ball'.radius <= bounds.x))
              => (ball'.position.x < ball.position.x
                    /\ ball'.normal.x = ball.normal.x) ]_vars

\* The ball has bounced off the right wall and is on its way back.
C5_Witness ==
    /\ peak # <<>>
    /\ ball.normal = Point(-10, 0)
    /\ ball.position.x < peak[1] - ball.speed

\* C6: a Pressed event for a key already in the held-key set, and a Released
\* event for a key not in it, leave the set as it was.
C6_KeySetIdempotent ==
    [][ \A k \in KeyCodes :
          /\ (k \in input.keys_pressed
                /\ OnInput([type |-> "KeyboardInput", key_code |-> k,
                            state |-> "Pressed"]))
               => input'.keys_pressed = input.keys_pressed
          /\ (k \notin input.keys_pressed
                /\ OnInput([type |-> "KeyboardInput", key_code |-> k,
                            state |-> "Released"]))
               => input'.keys_pressed = input.keys_pressed ]_vars

\* A key that was held has just been pressed again.
C6_Witness ==
    /\ last.op = "on_input"
    /\ last.redundant = "Pressed"
    /\ input.keys_pressed # {}

\* C7: interact changes the paddle position by +10 if only D is held, by -10
\* if only A is held and by 0 if both or neither are, whatever the position.
C7_PaddleStep ==
    [][ Interact =>
          paddle'.position - paddle.position =
              IF "D" \in input.keys_pressed /\ "A" \notin input.keys_pressed THEN 10
              ELSE IF "A" \in input.keys_pressed /\ "D" \notin input.keys_pressed
                   THEN -10
              ELSE 0 ]_vars

\* The paddle has reached 30 (three steps right of its start at 0), which is
\* outside the playfield.
C7_Witness ==
    /\ last.op = "interact"
    /\ paddle.position = 30
    /\ paddle.position > bounds.x + bounds.width

\* C9: intersects returns the result of the reference test on the rectangle's
\* x/y: not (dx > w/2 + r or dy > h/2 + r), and dx <= w/2 or dy <= h/2 or
\* (dx - w/2)^2 + (dy - h/2)^2 <= r^2 (stated in quarters, to stay in integers).
C9_ReferenceTest ==
    Len(probe) = 3 =>
        LET b == probe[1]
            rect == probe[2]
            dx == Abs(b.position.x - rect.x)
            dy == Abs(b.position.y - rect.y)
            outside == \/ 2 * dx > rect.width + 2 * b.radius
                       \/ 2 * dy > rect.height + 2 * b.radius
            corner == (2 * dx - rect.width) * (2 * dx - rect.width)
                      + (2 * dy - rect.height) * (2 * dy - rect.height)
        IN  probe[3] <=>
              /\ ~outside
              /\ \/ 2 * dx <= rect.width
                 \/ 2 * dy <= rect.height
                 \/ corner <= 4 * b.radius * b.radius

\* intersects has answered true for a ball beyond the rectangle on both axes
\* whose corner distance squared equals its radius squared.
C9_Witness ==
    /\ Len(probe) = 3
    /\ probe[3]
    /\ LET b == probe[1]
           rect == probe[2]
           cx == 2 * Abs(b.position.x - rect.x) - rect.width
           cy == 2 * Abs(b.position.y - rect.y) - rect.height
       IN  cx > 0 /\ cy > 0 /\ cx * cx + cy * cy = 4 * b.radius * b.radius

\* C10: on_input changes nothing of ball, paddle, bricks, bounds and score (nor
\* any other field of the game: only the Input value); ball, paddle, bricks,
\* bounds and score change only in interact and update.
C10_InputFrame ==
    [][ /\ (\E e \in Events : OnInput(e)) => UNCHANGED <<world, game>>
        /\ world' # world => (Interact \/ Update) ]_vars

\* An input event has just changed the input buffer.
C10_Witness ==
    /\ last.op = "on_input"
    /\ input.keys_pressed # {}
    /\ input.text_buffer # <<>>

\* C11: handlers run one at a time (update takes &mut self, draw &self), so
\* what a render can read is a state between two handler calls.  Every step
\* that changes the ball, the bricks or the score is a whole tick: the ball
\* integrated, each direction component reflected for the walls the new
\* position meets, and the first overlapping brick removed.  So no state a
\* render reads lies after integration and before reflection or removal.
\* And draw itself leaves ball, paddle, bricks, bounds and score unchanged.
C11_RenderSeesWholeTicks ==
    [][ /\ Draw => UNCHANGED <<world, game>>
        /\ (ball' # ball \/ bricks' # bricks \/ score' # score) =>
             LET x == ball.position.x + (ball.speed * ball.normal.x) \div NormalScale
                 y == ball.position.y + (ball.speed * ball.normal.y) \div NormalScale
                 r == ball.radius
                 flipx == (x + r >= bounds.width) # (x - r <= bounds.x)
                 flipy == (y + r >= bounds.height) # (y + r <= bounds.y)
                 at == [ position |-> Point(x, y), radius |-> r ]
                 hits == { i \in DOMAIN bricks : Intersects(at, Rect(bricks[i])) }
             IN  /\ ball'.position = Point(x, y)
                 /\ ball'.normal.x = IF flipx THEN -ball.normal.x ELSE ball.normal.x
                 /\ ball'.normal.y = IF flipy THEN -ball.normal.y ELSE ball.normal.y
                 /\ bricks' = IF hits = {} THEN bricks
                              ELSE SubSeq(bricks, 1, Min(hits) - 1)
                                   \o SubSeq(bricks, Min(hits) + 1, Len(bricks)) ]_vars

\* draw has just rendered a state in which ticks have moved the ball to the
\* right wall and removed bricks.
C11_Witness ==
    /\ last.op = "draw"
    /\ peak # <<>>
    /\ Len(bricks) < Len(NewBricks(TinyConfig))

\* C12 as claimed: every brick the ball overlaps at its post-integration
\* position is removed in that very tick (so a brick goes in the first tick
\* that overlaps it), and a removed brick never reappears.
C12_RemovedAtFirstOverlap ==
    /\ [][ \A i \in DOMAIN bricks :
             Intersects(ball', Rect(bricks[i])) => bricks[i] \notin Range(bricks') ]_vars
    /\ [][ Range(bricks') \subseteq Range(bricks) ]_vars

\* C12 as amended: a tick removes a brick exactly when the ball overlaps it at
\* the post-integration position and overlaps no brick before it in the
\* collection's order; a brick is in the collection at most once, and a
\* removed brick never reappears.
C12_RemovedWhenFirstInOrder ==
    /\ [][ \A i \in DOMAIN bricks :
             bricks[i] \notin Range(bricks')
               <=> /\ Intersects(ball', Rect(bricks[i]))
                   /\ \A j \in 1 .. i - 1 : ~Intersects(ball', Rect(bricks[j])) ]_vars
    /\ [][ Range(bricks') \subseteq Range(bricks) ]_vars
    /\ [](Cardinality(Range(bricks)) = Len(bricks))

\* A tick has removed one brick and left in place a brick the ball overlaps as
\* well, to be removed by a later tick.
C12_Witness ==
    /\ last.hit > 0
    /\ Cardinality({ i \in DOMAIN bricks : Intersects(ball, Rect(bricks[i])) }) >= 1
    /\ Len(bricks) < Len(NewBricks(RefConfig))

\* C13: in one tick each direction component is negated at most once: the
\* component after the tick is the negation of its pre-tick value if any edge
\* of its axis is violated at the post-integration position (both edges at
\* once included), and is the pre-tick value otherwise.
C13_ReflectOncePerAxis ==
    [][ Update =>
          LET r == ball'.radius
              anyx == \/ ball'.position.x + r >= bounds.width
                      \/ ball'.position.x - r <= bounds.x
              anyy == \/ ball'.position.y + r >= bounds.height
                      \/ ball'.position.y + r <= bounds.y
          IN  /\ ball'.normal.x = IF anyx THEN -ball.normal.x ELSE ball.normal.x
              /\ ball'.normal.y = IF anyy THEN -ball.normal.y ELSE ball.normal.y ]_vars

\* C14: the ball's direction has unit length: direction.x^2 + direction.y^2 = 1
\* (the components are kept in tenths, so the squares sum to NormalScale^2).
C14_UnitDirection ==
    ball.normal.x * ball.normal.x + ball.normal.y * ball.normal.y
        = NormalScale * NormalScale

\* C15: a tick that removes a brick leaves the ball's speed as it was and its
\* direction as wall reflection alone sets it: each component negated exactly
\* when one (and not both) of its axis' wall tests holds at the
\* post-integration position.
C15_NoBrickBounce ==
    [][ (Update /\ Len(bricks') < Len(bricks)) =>
          LET x == ball'.position.x
              y == ball'.position.y
              r == ball.radius
              wallx == (x + r >= bounds.width) # (x - r <= bounds.x)
              wally == (y + r >= bounds.height) # (y + r <= bounds.y)
          IN  /\ ball'.speed = ball.speed
              /\ ball'.normal = Point(IF wallx THEN -ball.normal.x ELSE ball.normal.x,
                                      IF wally THEN -ball.normal.y ELSE ball.normal.y) ]_vars

\* A tick has removed a brick from below and the ball is still moving up.
C15_Witness ==
    /\ last.op = "update"
    /\ last.hit > 0
    /\ ball.normal.y < 0
    /\ ball.speed = RefConfig.speed

\* The paddle positions the bounded runs can reach.
PaddlePositions == { i * PaddleStep : i \in (0 - MaxLeft) .. MaxRight }

\* C16: the paddle has no influence on the rest of the game.  From any reached
\* state, a tick run on a copy that differs only in the paddle position and in
\* the held keys ends with the same ball, bricks, bounds and score; a tick does
\* not change the paddle; and neither the input handler nor interact writes the
\* ball, the bricks, the bounds or the score.  So two runs that differ only in
\* paddle position and key events agree on those after every tick.
C16_PaddleNoInfluence ==
    /\ [](\A p \in PaddlePositions, ks \in SUBSET KeyCodes :
            LET mine  == UpdateSelf(Self)
                other == UpdateSelf([Self EXCEPT !.paddle.position = p,
                                                 !.keys_pressed = ks])
            IN  /\ other.ball = mine.ball
                /\ other.bricks = mine.bricks
                /\ other.bounds = mine.bounds
                /\ other.score = mine.score
                /\ other.paddle.position = p)
    /\ [][Update => paddle' = paddle]_vars
    /\ [][(Interact \/ \E e \in Events : OnInput(e))
            => UNCHANGED <<ball, bricks, bounds, score>>]_vars

\* A tick has run with the paddle moved off its start and a key held.
C16_Witness ==
    /\ last.op = "update"
    /\ paddle.position # 0
    /\ keys_pressed # {}
    /\ ball # NewBall(TinyConfig)

\* The part of a key set that A and D make up.
MoveKeys(keys) == keys \cap {"A", "D"}

\* An event that is not A or D going down or up.
OtherEvent(e) == ~(e.type = "KeyboardInput" /\ e.key_code \in {"A", "D"})

\* self with everything the other events can have left in it taken out again:
\* the cursor where new put it, no mouse button, no key but A and D.
WithoutOtherEvents(self) ==
    [self EXCEPT !.cursor_position = Point(0, 0),
                 !.mouse_buttons_pressed = {},
                 !.keys_pressed = MoveKeys(@)]

\* C17: events other than A or D going down or up (cursor moved, text input,
\* mouse button, any other key, any other event), interleaved with ticks,
\* leave ball, paddle, bricks, bounds and score as they are without them.
\* Such an event changes none of the five nor which of A and D is held;
\* interact moves the paddle by the held A and D alone and leaves the other
\* four; and a tick ends with the same five as a tick run on self with the
\* traces of those events taken out.
C17_OtherEventsNoEffect ==
    /\ [][\A e \in Events \cup OtherKeyEvents :
            (OtherEvent(e) /\ OnInput(e)) =>
                /\ UNCHANGED world
                /\ MoveKeys(input'.keys_pressed) = MoveKeys(input.keys_pressed)]_vars
    /\ [][Interact =>
            /\ paddle' = [paddle EXCEPT !.position =
                             InteractPosition(@, MoveKeys(input.keys_pressed))]
            /\ UNCHANGED <<ball, bricks, bounds, score>>]_vars
    /\ [][Update =>
            LET clean == UpdateSelf(WithoutOtherEvents(Self))
            IN  world' = <<clean.ball, clean.paddle, clean.bricks,
                           clean.bounds, clean.score>>]_vars

\* A tick has run after the cursor moved, a mouse button and a key other than
\* A and D went down, text came in, and interact copied them into the game.
C17_Witness ==
    /\ last.op = "update"
    /\ cursor_position # Point(0, 0)
    /\ mouse_buttons_pressed # {}
    /\ keys_pressed \cap OtherKeyCodes # {}
    /\ input.text_buffer # <<>>
    /\ Len(bricks) < Len(NewBricks(EventsConfig))

\* C18: every tick preserves the ball's speed, its radius and the absolute
\* value of each direction component (a tick can only flip a component's sign),
\* and moves the ball by speed * |direction| on each axis.
C18_TickPreservesMagnitudes ==
    [][ Update =>
          /\ ball'.speed = ball.speed
          /\ ball'.radius = ball.radius
          /\ Abs(ball'.normal.x) = Abs(ball.normal.x)
          /\ Abs(ball'.normal.y) = Abs(ball.normal.y)
          /\ NormalScale * Abs(ball'.position.x - ball.position.x)
                = ball.speed * Abs(ball'.normal.x)
          /\ NormalScale * Abs(ball'.position.y - ball.position.y)
                = ball.speed * Abs(ball'.normal.y) ]_vars

\* Ticks have flipped both components: the ball moves left and up.
C18_Witness ==
    /\ last.op = "update"
    /\ ball.normal.x < 0
    /\ ball.normal.y < 0
    /\ ball.position # NewBall(TinyConfig).position

\* The bricks of the top row of the grid: those new put at y = 0.
TopRow(bs) == { brick \in Range(bs) : brick.position.y = 0 }

\* C19: in the game as main starts it the ball's y never goes below 24, so no
\* brick of the top row ever overlaps the ball, the whole top row stays, and
\* the bricks collection is never empty.
C19_TopRowOutOfReach ==
    /\ ball.position.y >= 24
    /\ \A brick \in TopRow(bricks) : ~Intersects(ball, Rect(brick))
    /\ TopRow(bricks) = TopRow(NewBricks(RefConfig))
    /\ bricks # <<>>

\* The ball at its highest, y = 24, after every brick below the top row has gone.
C19_Witness ==
    /\ last.op = "update"
    /\ ball.position.y = 24
    /\ Len(bricks) = RefConfig.columns
    /\ Range(bricks) = TopRow(NewBricks(RefConfig))

=============================================================================
